---- MODULE Spec2Model ----
(***************************************************************************)
(* A model of flocker.common.script: main_for_service / _chain_stop_result *)
(* (binding a service's stop to the reactor's before-shutdown event) and   *)
(* FlockerScriptRunner (logging setup, option parsing, react, teardown),    *)
(* and of flocker.node._model.DockerImage (full_name, from_string).        *)
(***************************************************************************)
EXTENDS Naturals, Sequences, FiniteSets, TLC

\* ------------------------------------------------------------------ bounds
\* Number of services that may be bound on the one reactor.
NumServices == 2
\* Number of times the reactor's "shutdown" system event may be fired.
MaxShutdowns == 2

\* Longest argument vector (without the program name) handed to the Runner.
MaxArgs == 2
\* Longest string handed to DockerImage.from_string or to one of the two
\* attributes of a DockerImage built directly.
MaxLen == 3

Services == 1 .. NumServices
Values == {"v1", "v2"}
Errors == {"e1", "e2"}

VARIABLES
    \* --- main_for_service / reactor ---
    pc,              \* pc[s]: position of the main_for_service(reactor, s) call
    startCalls,      \* startCalls[s]: completed or raised calls of s.startService
    stopCalls,       \* stopCalls[s]: calls of s.stopService
    stopCallPhase,   \* stopCallPhase[s]: reactor phase in which stopService was last called
    stopCallInfo,    \* stopCallInfo[s]: the firing that called stopService, and what it did
    stop,            \* stop[s]: the Deferred main_for_service created for s
    returned,        \* returned[s]: what the call handed to its caller
    stopD,           \* stopD[s]: the Deferred maybeDeferred(s.stopService) produced
    chained,         \* services whose stopD has stop[s] chained and still waiting
    triggers,        \* the reactor's registered before-shutdown triggers, in order
    reactorState,    \* "BASE" or "BEFORE" (the shutdown event's before phase)
    shutdownsFired,  \* times the shutdown event was fired
    shutdownsDone,   \* times the shutdown event ran to completion
    beforeResults,   \* hooks of the current firing that returned a Deferred
    hookResult,      \* what the last hook call returned to the reactor
    alreadyCalled,   \* a chained result reached an already fired Deferred
    \* --- FlockerScriptRunner.main ---
    rpc,             \* position inside FlockerScriptRunner.main
    argv,            \* sys_module.argv: the program path, then the arguments
    pid,             \* os.getpid()
    reactKind,       \* the _react in use: "task.react" or a stub that returns
    dirExists,       \* the log directory exists
    logFiles,        \* names of the files in the log directory
    logRecords,      \* records appended to this invocation's log file
    fileOpen,        \* log_file is open
    observer,        \* the local variable observer: "None" or "emit"
    attached,        \* observer is in twisted's list of log observers
    attachCalls,     \* calls of addObserver
    detachCalls,     \* calls of removeObserver
    openCalls,       \* successful calls of log_path.open
    closeCalls,      \* calls of log_file.close
    setupFault,      \* the logging-setup step that failed, or "none"
    options,         \* the state of self.options
    stdout,          \* writes to sys_module.stdout
    stderr,          \* writes to sys_module.stderr
    exitCode,        \* how main ended: "none", "returned", "0", "1", "uncaught"
    mainCalls,       \* calls of script.main
    mainOptions,     \* the options script.main was called with
    events,          \* attach / main / detach events, in order
    \* --- DockerImage ---
    imgPc,           \* what was last done: "idle", "built", "parsed", "raised",
                     \* "named", "reparsed", "reraised"
    imgInput,        \* the string last handed to from_string
    imgImage,        \* the DockerImage last built or returned
    imgName,         \* the value last read from full_name
    imgOrigin        \* the image whose full_name was read

svcVars == <<pc, startCalls, stopCalls, stopCallPhase, stopCallInfo, stop, returned, stopD,
             chained, triggers, reactorState, shutdownsFired, shutdownsDone,
             beforeResults, hookResult, alreadyCalled>>

runVars == <<rpc, argv, pid, reactKind, dirExists, logFiles, logRecords,
             fileOpen, observer, attached, attachCalls, detachCalls, openCalls,
             closeCalls, setupFault, options, stdout, stderr, exitCode,
             mainCalls, mainOptions, events>>

imgVars == <<imgPc, imgInput, imgImage, imgName, imgOrigin>>

vars == <<svcVars, runVars, imgVars>>

\* ---------------------------------------------------------------- Deferred
\* A Deferred is a record: st is "absent" (never created), "unfired", "ok" or
\* "fail"; val is the success value or the failure it carries.
NoDeferred == [st |-> "absent", val |-> "none"]
Unfired == [st |-> "unfired", val |-> "none"]
Succeeded(v) == [st |-> "ok", val |-> v]
Failed(e) == [st |-> "fail", val |-> e]
Fired(d) == d.st \in {"ok", "fail"}

\* What s.stopService may do when called: return a plain value, raise, or
\* return a Deferred that has not fired yet.
StopBehaviours ==
    [kind : {"value"}, val : Values] \cup [kind : {"raise"}, val : Errors]
        \cup [kind : {"deferred"}, val : {"none"}]

\* twisted's maybeDeferred(f): a raise becomes a failed Deferred, a plain
\* value a succeeded one, a Deferred is passed through.
maybeDeferred(b) ==
    CASE b.kind = "value" -> Succeeded(b.val)
      [] b.kind = "raise" -> Failed(b.val)
      [] OTHER -> Unfired

\* d.chainDeferred(target), the part that runs at once: when d has already
\* fired its result is handed to target (an already fired target keeps its
\* result and raises AlreadyCalledError inside d's callback chain).
chainDeferredNow(d, target) ==
    IF Fired(d) /\ target.st = "unfired" THEN d ELSE target

\* Variant of _chain_stop_result that calls stopService but never chains
\* its Deferred to stop.
_chain_stop_result_nochain(s, b) ==
    LET d == maybeDeferred(b) IN
    /\ stopCalls' = [stopCalls EXCEPT ![s] = @ + 1]
    /\ stopCallPhase' = [stopCallPhase EXCEPT ![s] = reactorState]
    /\ stopCallInfo' = [stopCallInfo EXCEPT ![s] =
                           [firing |-> shutdownsFired, kind |-> b.kind, val |-> b.val]]
    /\ stopD' = [stopD EXCEPT ![s] = d]
    /\ hookResult' = "None"
    /\ UNCHANGED <<stop, chained, alreadyCalled>>

\* Variant of _chain_stop_result that chains the stopService Deferred to
\* stop twice.
_chain_stop_result_chainTwice(s, b) ==
    LET d == maybeDeferred(b) IN
    /\ stopCalls' = [stopCalls EXCEPT ![s] = @ + 1]
    /\ stopCallPhase' = [stopCallPhase EXCEPT ![s] = reactorState]
    /\ stopCallInfo' = [stopCallInfo EXCEPT ![s] =
                           [firing |-> shutdownsFired, kind |-> b.kind, val |-> b.val]]
    /\ stopD' = [stopD EXCEPT ![s] = d]
    /\ stop' = [stop EXCEPT ![s] = chainDeferredNow(d, @)]
    /\ chained' = IF Fired(d) THEN chained \ {s} ELSE chained \cup {s}
    /\ alreadyCalled' = (alreadyCalled \/ Fired(d))
    /\ hookResult' = "None"

\* Variant of _chain_stop_result that chains every stopService Deferred to
\* one shared Deferred, the first service's, instead of the stop it was given.
_chain_stop_result_shared(s, b) ==
    LET d == maybeDeferred(b) IN
    /\ stopCalls' = [stopCalls EXCEPT ![s] = @ + 1]
    /\ stopCallPhase' = [stopCallPhase EXCEPT ![s] = reactorState]
    /\ stopCallInfo' = [stopCallInfo EXCEPT ![s] =
                           [firing |-> shutdownsFired, kind |-> b.kind, val |-> b.val]]
    /\ stopD' = [stopD EXCEPT ![s] = d]
    /\ stop' = [stop EXCEPT ![1] = chainDeferredNow(d, @)]
    /\ chained' = IF Fired(d) THEN chained \ {s} ELSE chained \cup {s}
    /\ alreadyCalled' = (alreadyCalled \/ (Fired(d) /\ Fired(stop[1])))
    /\ hookResult' = "None"

\* Variant of _chain_stop_result that calls service.stopService() directly,
\* without maybeDeferred: a raise leaves the hook and reaches the reactor.
_chain_stop_result_direct(s, b) ==
    LET d == maybeDeferred(b) IN
    /\ stopCalls' = [stopCalls EXCEPT ![s] = @ + 1]
    /\ stopCallPhase' = [stopCallPhase EXCEPT ![s] = reactorState]
    /\ stopCallInfo' = [stopCallInfo EXCEPT ![s] =
                           [firing |-> shutdownsFired, kind |-> b.kind, val |-> b.val]]
    /\ IF b.kind = "raise"
       THEN /\ hookResult' = "raised"
            /\ UNCHANGED <<stopD, stop, chained, alreadyCalled>>
       ELSE /\ stopD' = [stopD EXCEPT ![s] = d]
            /\ stop' = [stop EXCEPT ![s] = chainDeferredNow(d, @)]
            /\ chained' = IF Fired(d) THEN chained \ {s} ELSE chained \cup {s}
            /\ alreadyCalled' = (alreadyCalled \/ (Fired(d) /\ Fired(stop[s])))
            /\ hookResult' = "None"

\* _chain_stop_result(service, stop): calls stopService, chains the resulting
\* Deferred to stop, and returns None to the reactor.
_chain_stop_result(s, b) ==
    LET d == maybeDeferred(b) IN
    /\ stopCalls' = [stopCalls EXCEPT ![s] = @ + 1]
    /\ stopCallPhase' = [stopCallPhase EXCEPT ![s] = reactorState]
    /\ stopCallInfo' = [stopCallInfo EXCEPT ![s] =
                           [firing |-> shutdownsFired, kind |-> b.kind, val |-> b.val]]
    /\ stopD' = [stopD EXCEPT ![s] = d]
    /\ stop' = [stop EXCEPT ![s] = chainDeferredNow(d, @)]
    /\ chained' = IF Fired(d) THEN chained \ {s} ELSE chained \cup {s}
    /\ alreadyCalled' = (alreadyCalled \/ (Fired(d) /\ Fired(stop[s])))
    /\ hookResult' = "None"

\* Variant of main_for_service that registers its trigger twice.
main_for_service_double(s) ==
    \/ /\ pc[s] = "init"
       /\ startCalls' = [startCalls EXCEPT ![s] = @ + 1]
       /\ \E raised \in BOOLEAN :
            /\ pc' = [pc EXCEPT ![s] = IF raised THEN "raised" ELSE "started"]
            /\ returned' = [returned EXCEPT ![s] = IF raised THEN "exception" ELSE @]
       /\ UNCHANGED <<stopCalls, stopCallPhase, stopCallInfo, stop, stopD, chained, triggers,
                      reactorState, shutdownsFired, shutdownsDone,
                      beforeResults, hookResult, alreadyCalled>>
    \/ /\ pc[s] = "started"
       /\ stop' = [stop EXCEPT ![s] = Unfired]
       /\ triggers' = Append(Append(triggers, s), s)
       /\ returned' = [returned EXCEPT ![s] = "stop"]
       /\ pc' = [pc EXCEPT ![s] = "returned"]
       /\ UNCHANGED <<startCalls, stopCalls, stopCallPhase, stopCallInfo, stopD, chained,
                      reactorState, shutdownsFired, shutdownsDone,
                      beforeResults, hookResult, alreadyCalled>>

\* Variant of main_for_service that registers the trigger even when
\* startService raised.
main_for_service_registerOnRaise(s) ==
    \/ /\ pc[s] = "init"
       /\ startCalls' = [startCalls EXCEPT ![s] = @ + 1]
       /\ \E raised \in BOOLEAN :
            /\ pc' = [pc EXCEPT ![s] = IF raised THEN "raised" ELSE "started"]
            /\ returned' = [returned EXCEPT ![s] = IF raised THEN "exception" ELSE @]
            /\ triggers' = IF raised THEN Append(triggers, s) ELSE triggers
            /\ stop' = [stop EXCEPT ![s] = IF raised THEN Unfired ELSE @]
       /\ UNCHANGED <<stopCalls, stopCallPhase, stopCallInfo, stopD, chained,
                      reactorState, shutdownsFired, shutdownsDone,
                      beforeResults, hookResult, alreadyCalled>>
    \/ /\ pc[s] = "started"
       /\ stop' = [stop EXCEPT ![s] = Unfired]
       /\ triggers' = Append(triggers, s)
       /\ returned' = [returned EXCEPT ![s] = "stop"]
       /\ pc' = [pc EXCEPT ![s] = "returned"]
       /\ UNCHANGED <<startCalls, stopCalls, stopCallPhase, stopCallInfo, stopD, chained,
                      reactorState, shutdownsFired, shutdownsDone,
                      beforeResults, hookResult, alreadyCalled>>

\* Variant of main_for_service that registers the trigger first and calls
\* startService afterwards.
main_for_service_hookFirst(s) ==
    \/ /\ pc[s] = "init"
       /\ stop' = [stop EXCEPT ![s] = Unfired]
       /\ triggers' = Append(triggers, s)
       /\ pc' = [pc EXCEPT ![s] = "registered"]
       /\ UNCHANGED <<startCalls, stopCalls, stopCallPhase, stopCallInfo, returned, stopD,
                      chained, reactorState, shutdownsFired, shutdownsDone,
                      beforeResults, hookResult, alreadyCalled>>
    \/ /\ pc[s] = "registered"
       /\ startCalls' = [startCalls EXCEPT ![s] = @ + 1]
       /\ \E raised \in BOOLEAN :
            /\ pc' = [pc EXCEPT ![s] = IF raised THEN "raised" ELSE "returned"]
            /\ returned' = [returned EXCEPT ![s] =
                               IF raised THEN "exception" ELSE "stop"]
       /\ UNCHANGED <<stopCalls, stopCallPhase, stopCallInfo, stop, stopD, chained, triggers,
                      reactorState, shutdownsFired, shutdownsDone,
                      beforeResults, hookResult, alreadyCalled>>

\* main_for_service(reactor, service), in its two steps: service.startService()
\* (which may raise, ending the call), then the creation of stop, the
\* registration of the before-shutdown trigger and the return of stop.  Each
\* service is passed to main_for_service at most once; other steps (calls for
\* other services, the shutdown event) may fall between the two steps.
main_for_service(s) ==
    \/ /\ pc[s] = "init"
       /\ startCalls' = [startCalls EXCEPT ![s] = @ + 1]
       /\ \E raised \in BOOLEAN :
            /\ pc' = [pc EXCEPT ![s] = IF raised THEN "raised" ELSE "started"]
            /\ returned' = [returned EXCEPT ![s] = IF raised THEN "exception" ELSE @]
       /\ UNCHANGED <<stopCalls, stopCallPhase, stopCallInfo, stop, stopD, chained, triggers,
                      reactorState, shutdownsFired, shutdownsDone,
                      beforeResults, hookResult, alreadyCalled>>
    \/ /\ pc[s] = "started"
       /\ stop' = [stop EXCEPT ![s] = Unfired]
       /\ triggers' = Append(triggers, s)
       /\ returned' = [returned EXCEPT ![s] = "stop"]
       /\ pc' = [pc EXCEPT ![s] = "returned"]
       /\ UNCHANGED <<startCalls, stopCalls, stopCallPhase, stopCallInfo, stopD, chained,
                      reactorState, shutdownsFired, shutdownsDone,
                      beforeResults, hookResult, alreadyCalled>>

\* ----------------------------------------------------------------- reactor
\* The reactor side of addSystemEventTrigger("before", "shutdown", f, *args),
\* as twisted documents it: firing the shutdown event calls every registered
\* before-trigger once, removing it, and the event goes on to completion when
\* every Deferred that a before-trigger returned has fired.
\* reactor.fireSystemEvent("shutdown"): the event enters its before phase.
FireShutdown ==
    /\ reactorState = "BASE"
    /\ shutdownsFired < MaxShutdowns
    /\ reactorState' = "BEFORE"
    /\ shutdownsFired' = shutdownsFired + 1
    /\ beforeResults' = {}
    /\ UNCHANGED <<pc, startCalls, stopCalls, stopCallPhase, stopCallInfo, stop, returned,
                   stopD, chained, triggers, shutdownsDone, hookResult,
                   alreadyCalled>>
    /\ UNCHANGED <<runVars, imgVars>>

\* The before phase pops the next trigger and calls it; a trigger that
\* returns a Deferred is one the shutdown waits for.
RunHook ==
    /\ reactorState = "BEFORE"
    /\ triggers # <<>>
    /\ LET s == Head(triggers) IN
         /\ triggers' = Tail(triggers)
         /\ \E b \in StopBehaviours : _chain_stop_result(s, b)
         /\ beforeResults' =
              IF hookResult' = "Deferred" THEN beforeResults \cup {s}
              ELSE beforeResults
    /\ UNCHANGED <<pc, startCalls, returned, reactorState, shutdownsFired,
                   shutdownsDone>>
    /\ UNCHANGED <<runVars, imgVars>>

\* The before phase ends, and the shutdown completes, once every trigger has
\* been called and every Deferred a trigger returned has fired.
ContinueFiring ==
    /\ reactorState = "BEFORE"
    /\ triggers = <<>>
    /\ \A s \in beforeResults : Fired(stopD[s])
    /\ reactorState' = "BASE"
    /\ shutdownsDone' = shutdownsDone + 1
    /\ beforeResults' = {}
    /\ UNCHANGED <<pc, startCalls, stopCalls, stopCallPhase, stopCallInfo, stop, returned,
                   stopD, chained, triggers, shutdownsFired, hookResult,
                   alreadyCalled>>
    /\ UNCHANGED <<runVars, imgVars>>

\* The Deferred a stopService returned fires, with a value or a failure; a
\* chained stop receives the same result in the same turn.
ResolveStopService(s) ==
    /\ stopD[s].st = "unfired"
    /\ \E r \in {Succeeded(v) : v \in Values} \cup {Failed(e) : e \in Errors} :
         /\ stopD' = [stopD EXCEPT ![s] = r]
         /\ stop' = [stop EXCEPT ![s] =
                        IF s \in chained THEN chainDeferredNow(r, @) ELSE @]
         /\ alreadyCalled' = (alreadyCalled \/ (s \in chained /\ Fired(stop[s])))
    /\ chained' = chained \ {s}
    /\ UNCHANGED <<pc, startCalls, stopCalls, stopCallPhase, stopCallInfo, returned, triggers,
                   reactorState, shutdownsFired, shutdownsDone, beforeResults,
                   hookResult>>
    /\ UNCHANGED <<runVars, imgVars>>

\* The binder's state before any main_for_service call.
ServiceIdle ==
    /\ pc = [s \in Services |-> "init"]
    /\ startCalls = [s \in Services |-> 0]
    /\ stopCalls = [s \in Services |-> 0]
    /\ stopCallPhase = [s \in Services |-> "none"]
    /\ stopCallInfo = [s \in Services |-> [firing |-> 0, kind |-> "none", val |-> "none"]]
    /\ stop = [s \in Services |-> NoDeferred]
    /\ returned = [s \in Services |-> "nothing"]
    /\ stopD = [s \in Services |-> NoDeferred]
    /\ chained = {}
    /\ triggers = <<>>
    /\ reactorState = "BASE"
    /\ shutdownsFired = 0
    /\ shutdownsDone = 0
    /\ beforeResults = {}
    /\ hookResult = "None"
    /\ alreadyCalled = FALSE

\* ------------------------------------------------- FlockerScriptRunner
\* Command-line tokens: the standard flags, two options the schema does not
\* know, and --conf, an option of the schema whose handler raises IOError.
Tokens == {"-v", "--verbose", "--version", "--bogus", "--wrong", "--conf"}
\* The options the schema declares (what getopt is given).
SchemaOptions == {"-v", "--verbose", "--version", "--conf"}
Programs == {<<"usr", "sbin", "flocker-volume">>, <<"flocker-node">>}
Pids == {"pid7", "pid8"}

RECURSIVE SeqsUpTo(_, _)
SeqsUpTo(S, n) ==
    IF n = 0 THEN {<<>>}
    ELSE LET shorter == SeqsUpTo(S, n - 1) IN
         shorter \cup {Append(q, x) : q \in {r \in shorter : Len(r) = n - 1}, x \in S}

\* The argument vectors the Runner is given: argv[0] is the program path (its
\* components), the rest are command-line tokens.
ArgVectors ==
    {[prog |-> p, args |-> a] : p \in Programs, a \in SeqsUpTo(Tokens, MaxArgs)}

\* os.path.basename(argv[0]): the last component of the path.
basename(path) == path[Len(path)]

\* The log file's name, b"%s-%d.log" % (basename(argv[0]), getpid()).
LogName(av, p) == <<basename(av.prog), "-", p, ".log">>

\* flocker_standard_options.__init__: verbosity starts at 0.
NewOptions == [verbosity |-> 0]

\* Variant of opt_verbose that sets the verbosity to 1 instead of adding 1.
opt_verbose_set(o) == [o EXCEPT !.verbosity = 1]

\* opt_verbose: one more level of verbosity.
opt_verbose(o) == [o EXCEPT !.verbosity = @ + 1]

RECURSIVE dispatch(_, _)

\* Variant of opt_version that writes the version but does not raise
\* SystemExit, so the remaining options are handled.
opt_version_noexit(o, rest) ==
    LET r == dispatch(o, rest) IN [r EXCEPT !.out = << <<"version", "\n">> >> \o @]

\* opt_version: write the version and a newline to stdout in one write and
\* raise SystemExit(0); the options after it (rest) are never handled.
opt_version(o, rest) ==
    [outcome |-> "version", opts |-> o, message |-> <<>>,
     out |-> << <<"version", "\n">> >>, code |-> "0"]

\* The second half of parseOptions: the handlers of the parsed options are
\* called from the left.
dispatch(o, arguments) ==
    IF arguments = <<>>
    THEN [outcome |-> "ok", opts |-> o, message |-> <<>>, out |-> <<>>, code |-> "none"]
    ELSE LET tok == Head(arguments) IN
         CASE tok \in {"-v", "--verbose"} -> dispatch(opt_verbose(o), Tail(arguments))
           [] tok = "--version" -> opt_version(o, Tail(arguments))
           [] OTHER ->
                  [outcome |-> "error", opts |-> o, message |-> <<>>,
                   out |-> <<>>, code |-> "uncaught"]

\* options.parseOptions(arguments): getopt first goes through the whole list
\* and raises on the first option the schema does not declare, which becomes
\* a UsageError before any handler has run; otherwise the handlers are called
\* from the left.  The result tells how parsing ended (ok, usage, version,
\* error), the options as parsing left them, the UsageError's message, what
\* was written to stdout and the SystemExit code.
parseOptions(o, arguments) ==
    LET unknown == {i \in 1 .. Len(arguments) : arguments[i] \notin SchemaOptions} IN
    IF unknown # {}
    THEN LET first == CHOOSE i \in unknown : \A j \in unknown : i <= j IN
         [outcome |-> "usage", opts |-> o,
          message |-> <<"option ", arguments[first], " not recognized">>,
          out |-> <<>>, code |-> "1"]
    ELSE dispatch(o, arguments)

\* The state of one Runner before main is called.
RunnerIdle ==
    /\ rpc = "idle"
    /\ argv = [prog |-> <<"flocker-node">>, args |-> <<>>]
    /\ pid = "pid7"
    /\ reactKind = "task.react"
    /\ dirExists = TRUE
    /\ logFiles = {}
    /\ logRecords = <<>>
    /\ fileOpen = FALSE
    /\ observer = "None"
    /\ attached = FALSE
    /\ attachCalls = 0
    /\ detachCalls = 0
    /\ openCalls = 0
    /\ closeCalls = 0
    /\ setupFault = "unset"
    /\ options = NewOptions
    /\ stdout = <<>>
    /\ stderr = <<>>
    /\ exitCode = "none"
    /\ mainCalls = 0
    /\ mainOptions = NewOptions
    /\ events = <<>>

\* What msg("Arguments: %s" % (argv,)) appends to the log file.
ArgumentsRecord(av) == <<"Arguments: ", av>>

\* Variant of main_logging_setup whose except clause names OSError only, so
\* the IOError of a failed open leaves main.
main_logging_setup_oserror_only ==
    /\ rpc = "idle"
    /\ \E fault \in {"none", "makedirs", "open", "msg"} :
         /\ fault = "makedirs" => ~dirExists
         /\ setupFault' = fault
         /\ dirExists' = (dirExists \/ fault # "makedirs")
         /\ rpc' = IF fault = "open" THEN "exited" ELSE "parse"
         /\ exitCode' = IF fault = "open" THEN "uncaught" ELSE exitCode
         /\ IF fault \in {"makedirs", "open"}
            THEN UNCHANGED <<logFiles, logRecords, fileOpen, observer, attached,
                             attachCalls, openCalls, events>>
            ELSE /\ logFiles' = logFiles \cup {LogName(argv, pid)}
                 /\ fileOpen' = TRUE
                 /\ openCalls' = openCalls + 1
                 /\ observer' = "emit"
                 /\ attached' = TRUE
                 /\ attachCalls' = attachCalls + 1
                 /\ events' = Append(events, "attach")
                 /\ logRecords' = IF fault = "none"
                                  THEN Append(logRecords, ArgumentsRecord(argv))
                                  ELSE logRecords
    /\ UNCHANGED <<argv, pid, reactKind, detachCalls, closeCalls, options,
                   stdout, stderr, mainCalls, mainOptions>>
    /\ UNCHANGED <<svcVars, imgVars>>

\* main, lines 121-133: observer = None, then the try block that creates the
\* log directory if it is missing, opens the log file for appending, builds
\* and adds the observer and logs the argument vector; an OSError or IOError
\* raised on the way is passed over.  fault is the step that fails: makedirs
\* (only called when the directory is missing), the open, the write of the
\* startup record, or none.  A failed makedirs or open leaves the try block
\* before observer is assigned.  A failed write of the startup record happens
\* after addObserver: whether twisted's log publisher absorbs the observer's
\* error or the except clause does, observer stays assigned and attached and
\* the record is not in the file.
main_logging_setup ==
    /\ rpc = "idle"
    /\ \E fault \in {"none", "makedirs", "open", "msg"} :
         /\ fault = "makedirs" => ~dirExists
         /\ setupFault' = fault
         /\ dirExists' = (dirExists \/ fault # "makedirs")
         /\ IF fault \in {"makedirs", "open"}
            THEN UNCHANGED <<logFiles, logRecords, fileOpen, observer, attached,
                             attachCalls, openCalls, events>>
            ELSE /\ logFiles' = logFiles \cup {LogName(argv, pid)}
                 /\ fileOpen' = TRUE
                 /\ openCalls' = openCalls + 1
                 /\ observer' = "emit"
                 /\ attached' = TRUE
                 /\ attachCalls' = attachCalls + 1
                 /\ events' = Append(events, "attach")
                 /\ logRecords' = IF fault = "none"
                                  THEN Append(logRecords, ArgumentsRecord(argv))
                                  ELSE logRecords
    /\ rpc' = "parse"
    /\ UNCHANGED <<argv, pid, reactKind, detachCalls, closeCalls, options,
                   stdout, stderr, exitCode, mainCalls, mainOptions>>
    /\ UNCHANGED <<svcVars, imgVars>>

\* Variant of _parse_options that reports a usage error on stderr but does
\* not raise SystemExit, returning the options instead.
_parse_options_noexit ==
    /\ rpc = "parse"
    /\ LET r == parseOptions(options, argv.args) IN
         /\ options' = r.opts
         /\ stdout' = stdout \o r.out
         /\ CASE r.outcome = "ok" ->
                   /\ rpc' = "react"
                   /\ UNCHANGED <<stderr, exitCode>>
              [] r.outcome = "usage" ->
                   /\ stderr' = stderr \o
                        << <<"usage">>, <<"ERROR: ">> \o r.message \o <<"\n">> >>
                   /\ rpc' = "react"
                   /\ UNCHANGED exitCode
              [] r.outcome = "version" ->
                   /\ exitCode' = r.code
                   /\ rpc' = "exited"
                   /\ UNCHANGED stderr
              [] OTHER ->
                   /\ exitCode' = "uncaught"
                   /\ rpc' = "exited"
                   /\ UNCHANGED stderr
    /\ UNCHANGED <<argv, pid, reactKind, dirExists, logFiles, logRecords,
                   fileOpen, observer, attached, attachCalls, detachCalls,
                   openCalls, closeCalls, setupFault, mainCalls, mainOptions,
                   events>>
    /\ UNCHANGED <<svcVars, imgVars>>

\* Variant of _parse_options whose except clause catches every exception of
\* parseOptions, so that an error raised by an option handler is passed over.
_parse_options_swallow ==
    /\ rpc = "parse"
    /\ LET r == parseOptions(options, argv.args) IN
         /\ options' = r.opts
         /\ stdout' = stdout \o r.out
         /\ CASE r.outcome = "ok" ->
                   /\ rpc' = "react"
                   /\ UNCHANGED <<stderr, exitCode>>
              [] r.outcome = "usage" ->
                   /\ stderr' = stderr \o
                        << <<"usage">>, <<"ERROR: ">> \o r.message \o <<"\n">> >>
                   /\ exitCode' = "1"
                   /\ rpc' = "exited"
              [] r.outcome = "version" ->
                   /\ exitCode' = r.code
                   /\ rpc' = "exited"
                   /\ UNCHANGED stderr
              [] OTHER ->
                   /\ rpc' = "react"
                   /\ UNCHANGED exitCode
                   /\ UNCHANGED stderr
    /\ UNCHANGED <<argv, pid, reactKind, dirExists, logFiles, logRecords,
                   fileOpen, observer, attached, attachCalls, detachCalls,
                   openCalls, closeCalls, setupFault, mainCalls, mainOptions,
                   events>>
    /\ UNCHANGED <<svcVars, imgVars>>

\* main line 135 and _parse_options: parse argv[1:]; on UsageError write the
\* usage text and the ERROR line to stderr and raise SystemExit(1).  The
\* SystemExit(0) of opt_version and any other exception of parseOptions are
\* not caught.  Each of them leaves main at once.
_parse_options ==
    /\ rpc = "parse"
    /\ LET r == parseOptions(options, argv.args) IN
         /\ options' = r.opts
         /\ stdout' = stdout \o r.out
         /\ CASE r.outcome = "ok" ->
                   /\ rpc' = "react"
                   /\ UNCHANGED <<stderr, exitCode>>
              [] r.outcome = "usage" ->
                   /\ stderr' = stderr \o
                        << <<"usage">>, <<"ERROR: ">> \o r.message \o <<"\n">> >>
                   /\ exitCode' = "1"
                   /\ rpc' = "exited"
              [] r.outcome = "version" ->
                   /\ exitCode' = r.code
                   /\ rpc' = "exited"
                   /\ UNCHANGED stderr
              [] OTHER ->
                   /\ exitCode' = "uncaught"
                   /\ rpc' = "exited"
                   /\ UNCHANGED stderr
    /\ UNCHANGED <<argv, pid, reactKind, dirExists, logFiles, logRecords,
                   fileOpen, observer, attached, attachCalls, detachCalls,
                   openCalls, closeCalls, setupFault, mainCalls, mainOptions,
                   events>>
    /\ UNCHANGED <<svcVars, imgVars>>

\* Variant of main_react_call with the teardown placed before the _react
\* call: the observer is removed and the file closed, then main is called.
main_react_call_detachFirst ==
    /\ rpc = "react"
    /\ mainCalls' = mainCalls + 1
    /\ mainOptions' = options
    /\ attached' = FALSE
    /\ fileOpen' = FALSE
    /\ detachCalls' = IF observer # "None" THEN detachCalls + 1 ELSE detachCalls
    /\ closeCalls' = IF observer # "None" THEN closeCalls + 1 ELSE closeCalls
    /\ \E raises \in BOOLEAN :
         LET before == IF observer # "None" THEN Append(events, "detach")
                       ELSE events IN
         IF raises
         THEN /\ events' = before \o <<"main_begin", "main_raise">>
              /\ exitCode' = "uncaught"
              /\ rpc' = "exited"
         ELSE /\ events' = Append(before, "main_begin")
              /\ rpc' = "running"
              /\ UNCHANGED exitCode
    /\ UNCHANGED <<argv, pid, reactKind, dirExists, logFiles, logRecords,
                   observer, attachCalls, openCalls, setupFault, options,
                   stdout, stderr>>
    /\ UNCHANGED <<svcVars, imgVars>>

\* main line 139, first part: _react calls script.main(reactor, options),
\* which returns a Deferred or raises; a raise passes through _react and out
\* of main.
main_react_call ==
    /\ rpc = "react"
    /\ mainCalls' = mainCalls + 1
    /\ mainOptions' = options
    /\ \E raises \in BOOLEAN :
         IF raises
         THEN /\ events' = events \o <<"main_begin", "main_raise">>
              /\ exitCode' = "uncaught"
              /\ rpc' = "exited"
         ELSE /\ events' = Append(events, "main_begin")
              /\ rpc' = "running"
              /\ UNCHANGED exitCode
    /\ UNCHANGED <<argv, pid, reactKind, dirExists, logFiles, logRecords,
                   fileOpen, observer, attached, attachCalls, detachCalls,
                   openCalls, closeCalls, setupFault, options, stdout, stderr>>
    /\ UNCHANGED <<svcVars, imgVars>>

\* main line 139, second part: the script's Deferred fires and _react ends:
\* task.react leaves through sys.exit (0 after a success, 1 after a failure),
\* a stub _react returns.
main_react_finish ==
    /\ rpc = "running"
    /\ events' = Append(events, "main_end")
    /\ \E failed \in BOOLEAN :
         IF reactKind = "task.react"
         THEN /\ exitCode' = IF failed THEN "1" ELSE "0"
              /\ rpc' = "exited"
         ELSE /\ rpc' = "teardown"
              /\ UNCHANGED exitCode
    /\ UNCHANGED <<argv, pid, reactKind, dirExists, logFiles, logRecords,
                   fileOpen, observer, attached, attachCalls, detachCalls,
                   openCalls, closeCalls, setupFault, options, stdout, stderr,
                   mainCalls, mainOptions>>
    /\ UNCHANGED <<svcVars, imgVars>>

\* Variant of main_teardown that removes the observer and closes the file
\* without testing observer.
main_teardown_unconditional ==
    /\ rpc = "teardown"
    /\ attached' = FALSE
    /\ detachCalls' = detachCalls + 1
    /\ fileOpen' = FALSE
    /\ closeCalls' = closeCalls + 1
    /\ events' = Append(events, "detach")
    /\ rpc' = "returned"
    /\ exitCode' = "returned"
    /\ UNCHANGED <<argv, pid, reactKind, dirExists, logFiles, logRecords,
                   observer, attachCalls, openCalls, setupFault, options,
                   stdout, stderr, mainCalls, mainOptions>>
    /\ UNCHANGED <<svcVars, imgVars>>

\* main lines 141-144: if observer is not None, remove it and close the file.
main_teardown ==
    /\ rpc = "teardown"
    /\ IF observer # "None"
       THEN /\ attached' = FALSE
            /\ detachCalls' = detachCalls + 1
            /\ fileOpen' = FALSE
            /\ closeCalls' = closeCalls + 1
            /\ events' = Append(events, "detach")
       ELSE UNCHANGED <<attached, detachCalls, fileOpen, closeCalls, events>>
    /\ rpc' = "returned"
    /\ exitCode' = "returned"
    /\ UNCHANGED <<argv, pid, reactKind, dirExists, logFiles, logRecords,
                   observer, attachCalls, openCalls, setupFault, options,
                   stdout, stderr, mainCalls, mainOptions>>
    /\ UNCHANGED <<svcVars, imgVars>>

\* ------------------------------------------------------------- DockerImage
\* Strings are sequences of characters.  The alphabet holds the separator and
\* two other characters.
Alphabet == {"a", "b", ":"}

Strings == UNION {[1 .. n -> Alphabet] : n \in 0 .. MaxLen}

\* defaults=dict(tag=u'latest')
Latest == <<"l", "a", "t", "e", "s", "t">>

\* DockerImage(repository=..., tag=...): the attributes are stored as given.
DockerImage(repository, tag) == [repository |-> repository, tag |-> tag]

\* The value of imgImage and imgOrigin while no image is held (see imgPc).
NoImage == DockerImage(<<>>, <<>>)

\* "{repository}:{tag}".format(...)
full_name(image) == image.repository \o <<":">> \o image.tag

ColonAt(input) == {i \in 1 .. Len(input) : input[i] = ":"}

\* A split at the first separator instead of the last.
rsplit_first(input) ==
    IF ColonAt(input) = {}
    THEN <<input>>
    ELSE LET i == CHOOSE k \in ColonAt(input) : \A m \in ColonAt(input) : k <= m
         IN  <<SubSeq(input, 1, i - 1), SubSeq(input, i + 1, Len(input))>>

\* input.rsplit(':', 1): at most one split, at the rightmost separator.
rsplit(input) ==
    IF ColonAt(input) = {}
    THEN <<input>>
    ELSE LET i == CHOOSE k \in ColonAt(input) : \A m \in ColonAt(input) : k >= m
         IN  <<SubSeq(input, 1, i - 1), SubSeq(input, i + 1, Len(input))>>

\* DockerImage.from_string(input): what it raises, or the image it returns.
from_string(input) ==
    LET parts == rsplit(input)
        repository == parts[1]
    IN  IF repository = <<>>
        THEN [raised |-> "ValueError", image |-> NoImage]
        ELSE IF Len(parts) = 2
             THEN [raised |-> "none", image |-> DockerImage(repository, parts[2])]
             ELSE [raised |-> "none", image |-> DockerImage(repository, Latest)]

ImageIdle ==
    /\ imgPc = "idle"
    /\ imgInput = <<>>
    /\ imgImage = NoImage
    /\ imgName = <<>>
    /\ imgOrigin = NoImage

\* An image is built directly, with a tag or with the default one.
BuildImage ==
    /\ imgPc = "idle"
    /\ \E repository \in Strings, tag \in Strings \cup {Latest} :
           imgImage' = DockerImage(repository, tag)
    /\ imgPc' = "built"
    /\ UNCHANGED <<imgInput, imgName, imgOrigin>>
    /\ UNCHANGED <<svcVars, runVars>>

\* from_string is called on some string.
ParseImage ==
    /\ imgPc = "idle"
    /\ \E input \in Strings :
           LET r == from_string(input)
           IN  /\ imgInput' = input
               /\ imgImage' = r.image
               /\ imgPc' = IF r.raised = "none" THEN "parsed" ELSE "raised"
    /\ UNCHANGED <<imgName, imgOrigin>>
    /\ UNCHANGED <<svcVars, runVars>>

\* full_name is read from the image held.
ReadFullName ==
    /\ imgPc \in {"built", "parsed"}
    /\ imgName' = full_name(imgImage)
    /\ imgOrigin' = imgImage
    /\ imgPc' = "named"
    /\ UNCHANGED <<imgInput, imgImage>>
    /\ UNCHANGED <<svcVars, runVars>>

\* from_string is called on the name just read.
ReparseImage ==
    /\ imgPc = "named"
    /\ LET r == from_string(imgName)
       IN  /\ imgInput' = imgName
           /\ imgImage' = r.image
           /\ imgPc' = IF r.raised = "none" THEN "reparsed" ELSE "reraised"
    /\ UNCHANGED <<imgName, imgOrigin>>
    /\ UNCHANGED <<svcVars, runVars>>

InitImage == ServiceIdle /\ RunnerIdle /\ ImageIdle

NextImage == BuildImage \/ ParseImage \/ ReadFullName \/ ReparseImage

SpecImage == InitImage /\ [][NextImage]_vars

\* One Runner, about to run main: any argument vector, pid and _react, the
\* log directory present or not, possibly holding another process's log.
InitRunner ==
    /\ ServiceIdle
    /\ ImageIdle
    /\ rpc = "idle"
    /\ argv \in ArgVectors
    /\ pid \in Pids
    /\ reactKind \in {"task.react", "stub"}
    /\ dirExists \in BOOLEAN
    /\ logFiles \in IF dirExists THEN {{}, {LogName(argv, "pid0")}} ELSE {{}}
    /\ logRecords = <<>>
    /\ fileOpen = FALSE
    /\ observer = "None"
    /\ attached = FALSE
    /\ attachCalls = 0
    /\ detachCalls = 0
    /\ openCalls = 0
    /\ closeCalls = 0
    /\ setupFault = "unset"
    /\ options = NewOptions
    /\ stdout = <<>>
    /\ stderr = <<>>
    /\ exitCode = "none"
    /\ mainCalls = 0
    /\ mainOptions = NewOptions
    /\ events = <<>>

NextRunner ==
    \/ main_logging_setup
    \/ _parse_options
    \/ main_react_call
    \/ main_react_finish
    \/ main_teardown

SpecRunner == InitRunner /\ [][NextRunner]_vars

InitService == ServiceIdle /\ RunnerIdle /\ ImageIdle

Bind == (\E s \in Services : main_for_service(s)) /\ UNCHANGED <<runVars, imgVars>>

Resolve == \E s \in Services : ResolveStopService(s)

NextService == Bind \/ FireShutdown \/ RunHook \/ ContinueFiring \/ Resolve

SpecService == InitService /\ [][NextService]_vars

\* ------------------------------------------------- claims: service binding
Registered(s) == \E i \in 1 .. Len(triggers) : triggers[i] = s

\* C1: every bound service's stopService is called exactly once, by the
\* before phase of the shutdown event and never earlier: no calls while its
\* trigger is still registered, one call once the trigger has been consumed,
\* whatever other services are bound on the same reactor.
C1_StopExactlyOnceAtShutdown ==
    \A s \in Services :
        /\ stopCalls[s] <= 1
        /\ (stopCalls[s] = 1) <=> (pc[s] = "returned" /\ ~Registered(s))
        /\ stopCalls[s] = 1 =>
             (stopCallPhase[s] = "BEFORE" /\ shutdownsFired >= 1)
        /\ (pc[s] = "returned" /\ shutdownsFired = 0) => stopCalls[s] = 0

C1_Witness ==
    /\ shutdownsDone >= 1
    /\ \A s \in Services : pc[s] = "returned" /\ stopCalls[s] = 1

\* C2: the Deferred returned by main_for_service has fired exactly when the
\* Deferred of the service's stopService has, and with the same result.
C2_StopMirrorsStopService ==
    \A s \in Services :
        pc[s] = "returned" =>
            stop[s] = IF Fired(stopD[s]) THEN stopD[s] ELSE Unfired

C2_Witness ==
    \E s, t \in Services :
        /\ stop[s] = Failed("e2")
        /\ stopCalls[t] = 1
        /\ stopD[t] = Unfired
        /\ stop[t] = Unfired

\* C3: a shutdown that has been triggered does not complete while the
\* Deferred of a stopService it called is still unfired.
C3_ShutdownWaitsForStop ==
    (reactorState = "BASE" /\ shutdownsDone >= 1) =>
        \A s \in Services : stopCalls[s] >= 1 => Fired(stopD[s])

\* C6: when startService raised, the caller got the exception and no
\* Deferred, no trigger is registered for the service and its stopService is
\* never called, also by a later shutdown.
C6_StartRaiseNoBinding ==
    \A s \in Services :
        pc[s] = "raised" =>
            /\ returned[s] = "exception"
            /\ ~Registered(s)
            /\ stop[s] = NoDeferred
            /\ stopCalls[s] = 0

C6_Witness ==
    \E s, t \in Services :
        /\ pc[s] = "raised"
        /\ shutdownsDone >= 1
        /\ stopCalls[t] = 1

\* C10: a trigger is registered only after startService has completed, so
\* stopService is never called on a service whose startService has not
\* completed, wherever the shutdown falls relative to the bind call.
C10_StartBeforeStop ==
    \A s \in Services :
        (Registered(s) \/ stopCalls[s] >= 1) =>
            (pc[s] = "returned" /\ startCalls[s] = 1)

C10_Witness ==
    \E s, t \in Services :
        /\ stopCalls[s] = 1
        /\ pc[t] = "started"
        /\ reactorState = "BEFORE"
        /\ stopCalls[t] = 0

\* -------------------------------------------------- claims: script runner
\* How the parsing of this invocation's arguments ends.
Parsed == parseOptions(NewOptions, argv.args)
PastParse == rpc \in {"react", "running", "teardown", "returned", "exited"}
Ended == rpc \in {"returned", "exited"}
KnownFlags == {"-v", "--verbose", "--version", "--conf"}
SetupFaults == {"makedirs", "open", "msg"}

\* The invocation ended in _parse_options' SystemExit(1).
UsageErrorExit == rpc = "exited" /\ mainCalls = 0 /\ exitCode = "1"

\* C4: once a sink was attached and script.main was called, main ends (by
\* returning, by main raising, by _react exiting the process) with the sink
\* removed and the log file closed, each exactly once.
C4_SinkReleasedOnEveryExit ==
    (Ended /\ attachCalls >= 1 /\ mainCalls >= 1) =>
        /\ detachCalls = 1
        /\ closeCalls = 1
        /\ ~attached
        /\ ~fileOpen

\* C5: when option parsing ended in a usage error, no log file was created
\* or opened and no sink is attached when the process exits.
C5_NoLoggingOnUsageError ==
    UsageErrorExit =>
        /\ openCalls = 0
        /\ LogName(argv, pid) \notin logFiles
        /\ ~fileOpen
        /\ ~attached

\* C7: a usage error writes the usage text and then the line
\* "ERROR: <message>" to stderr (and nothing else), ends with exit code 1, and
\* script.main is never called.
C7_UsageErrorReported ==
    \A i \in 1 .. Len(argv.args) :
        ( /\ PastParse
          /\ argv.args[i] \notin KnownFlags
          /\ \A j \in 1 .. (i - 1) : argv.args[j] \in KnownFlags )
        =>
        /\ stderr = << <<"usage">>,
                       <<"ERROR: ", "option ", argv.args[i], " not recognized", "\n">> >>
        /\ stdout = <<>>
        /\ exitCode = "1"
        /\ rpc = "exited"
        /\ mainCalls = 0

C7_Witness ==
    /\ UsageErrorExit
    /\ argv.args = <<"-v", "--wrong">>
    /\ Len(stderr) = 2

FirstAt(e) ==
    IF \E i \in 1 .. Len(events) : events[i] = e
    THEN CHOOSE i \in 1 .. Len(events) :
             events[i] = e /\ \A j \in 1 .. (i - 1) : events[j] # e
    ELSE 0
Count(e) == Cardinality({i \in 1 .. Len(events) : events[i] = e})

\* C9: in an invocation that attached a sink, the attach comes before
\* script.main begins, a detach comes only after script.main has returned or
\* raised, and while script.main runs the sink is attached.
C9_AttachMainDetachOrder ==
    attachCalls >= 1 =>
        /\ Count("attach") = 1 /\ Count("detach") <= 1 /\ Count("main_begin") <= 1
        /\ FirstAt("attach") = 1
        /\ FirstAt("main_begin") # 0 => FirstAt("attach") < FirstAt("main_begin")
        /\ FirstAt("detach") # 0 =>
             /\ FirstAt("main_begin") # 0
             /\ \E j \in 1 .. (FirstAt("detach") - 1) :
                    /\ events[j] \in {"main_end", "main_raise"}
                    /\ FirstAt("main_begin") < j
        /\ rpc \in {"react", "running"} => (attached /\ fileOpen)

C9_Witness == events = <<"attach", "main_begin", "main_end", "detach">>

\* --------------------------------------- claims: service binding, continued
Occurrences(s) == Cardinality({i \in 1 .. Len(triggers) : triggers[i] = s})

\* C11: when the shutdown event is fired a second time, a hook that the first
\* firing ran is gone: stopService is not called again, the returned Deferred
\* keeps the one result it got, and no result is ever handed to a Deferred
\* that has already fired.
C11_SecondShutdownNoOp ==
    /\ ~alreadyCalled
    /\ \A s \in Services :
         /\ stopCalls[s] <= 1
         /\ (stopCallInfo[s].firing = 1 /\ shutdownsFired >= 2) =>
              /\ stopCalls[s] = 1
              /\ ~Registered(s)
              /\ stop[s] = IF Fired(stopD[s]) THEN stopD[s] ELSE Unfired

C11_Witness ==
    \E s \in Services :
        /\ stopCallInfo[s].firing = 1
        /\ shutdownsDone = 2
        /\ stop[s] = Succeeded("v1")

\* C15: with several services bound on one reactor, each has a hook of its
\* own (registered until it is run, then run once) and a Deferred of its own,
\* which carries the outcome of that service's stopService alone: the value
\* it returned, the error it raised, or the result of the Deferred it
\* returned once that has fired, whatever the other services' stops do.
C15_IndependentHooks ==
    \A s \in Services :
        pc[s] = "returned" =>
            /\ Occurrences(s) + stopCalls[s] = 1
            /\ stop[s] =
                 CASE stopCallInfo[s].kind = "value" -> Succeeded(stopCallInfo[s].val)
                   [] stopCallInfo[s].kind = "raise" -> Failed(stopCallInfo[s].val)
                   [] stopCallInfo[s].kind = "deferred" /\ Fired(stopD[s]) -> stopD[s]
                   [] OTHER -> Unfired

C15_Witness ==
    \E s, t \in Services :
        /\ s # t
        /\ stopCallInfo[s].kind = "deferred"
        /\ stop[s] = Failed("e1")
        /\ stopCallInfo[t].kind = "deferred"
        /\ stopCalls[t] = 1
        /\ stop[t] = Unfired

\* C17: when stopService raises instead of returning, the hook still returns
\* normally to the reactor and the Deferred returned by main_for_service has
\* fired with the raised error as its failure.
C17_SyncRaiseBecomesFailure ==
    /\ hookResult # "raised"
    /\ \A s \in Services :
         stopCallInfo[s].kind = "raise" =>
             (stop[s] = Failed(stopCallInfo[s].val) /\ stopD[s] = stop[s])

C17_Witness ==
    \E s \in Services :
        /\ stopCallInfo[s].kind = "raise"
        /\ stop[s] = Failed("e1")
        /\ shutdownsDone >= 1

\* ------------------------------------------- claims: script runner, continued
VerboseFlags == {"-v", "--verbose"}
\* Number of verbose flags among the first n arguments.
VerboseBefore(n) ==
    Cardinality({i \in 1 .. Len(argv.args) : i <= n /\ argv.args[i] \in VerboseFlags})
\* Position of the first --version, 0 when there is none.
FirstVersion ==
    IF \E i \in 1 .. Len(argv.args) : argv.args[i] = "--version"
    THEN CHOOSE i \in 1 .. Len(argv.args) :
             argv.args[i] = "--version"
                 /\ \A j \in 1 .. (i - 1) : argv.args[j] # "--version"
    ELSE 0

\* C12: after a successful run (logging set up, options parsed, the script
\* completed) the log file <basename>-<pid>.log exists, its first record is
\* the argument vector, and the sink is detached and the file closed.
C12_SuccessfulRunLeavesDetachedLog ==
    ( /\ Ended
      /\ setupFault = "none"
      /\ Parsed.outcome = "ok"
      /\ exitCode \in {"0", "returned"} )
    =>
    /\ LogName(argv, pid) \in logFiles
    /\ Len(logRecords) >= 1
    /\ logRecords[1] = ArgumentsRecord(argv)
    /\ ~attached
    /\ ~fileOpen

C14_VerbosityCountsFlags ==
    /\ rpc \in {"idle", "parse"} => options.verbosity = 0
    /\ (PastParse /\ \A i \in 1 .. Len(argv.args) : argv.args[i] \in VerboseFlags) =>
         /\ options.verbosity = Len(argv.args)
         /\ mainCalls >= 1 => mainOptions.verbosity = Len(argv.args)

C14_Witness ==
    /\ argv.args = <<"-v", "--verbose">>
    /\ mainCalls = 1
    /\ mainOptions.verbosity = 2

InEvents(e) == \E i \in 1 .. Len(events) : events[i] = e

\* C16: only the logging setup passes errors over.  An error raised by an
\* option handler during parsing, by script.main, or the SystemExit of the
\* loop entry point leaves main as it is: main does not go on to call
\* script.main or to return normally after one.
C16_OnlySetupErrorsSwallowed ==
    /\ (PastParse /\ Parsed.outcome = "error") =>
         (rpc = "exited" /\ exitCode = "uncaught" /\ mainCalls = 0)
    /\ InEvents("main_raise") => (rpc = "exited" /\ exitCode = "uncaught")
    /\ (reactKind = "task.react" /\ InEvents("main_end")) =>
         (rpc = "exited" /\ exitCode \in {"0", "1"})
    /\ rpc \in {"teardown", "returned"} =>
         (Parsed.outcome = "ok" /\ reactKind = "stub" /\ InEvents("main_end")
             /\ ~InEvents("main_raise"))

C16_Witness ==
    /\ Parsed.outcome = "error"
    /\ argv.args = <<"-v", "--conf">>
    /\ setupFault = "none"
    /\ rpc = "exited"
    /\ exitCode = "uncaught"

\* C18: from the end of the logging setup until main is left, observer is
\* set exactly when the log file was opened and is still open; a setup that
\* failed before the open leaves observer unset, and close is never called
\* on a file that was not opened.
C18_ObserverIffFileOpen ==
    /\ closeCalls <= openCalls
    /\ detachCalls <= attachCalls
    /\ rpc \in {"parse", "react", "running", "teardown", "exited"} =>
         /\ (observer # "None") <=> fileOpen
         /\ (observer # "None") <=> (openCalls = 1)
         /\ setupFault \in {"makedirs", "open"} =>
              (observer = "None" /\ ~attached /\ openCalls = 0)
    /\ rpc = "returned" =>
         (closeCalls = openCalls /\ detachCalls = attachCalls /\ ~fileOpen)

C18_Witness ==
    /\ setupFault = "open"
    /\ rpc = "returned"
    /\ closeCalls = 0
    /\ observer = "None"

\* ------------------------------------------------------------------- C19
NoColon(str) == \A i \in 1 .. Len(str) : str[i] # ":"

\* The part of the input before its last ':' (the whole input without one)
\* is empty.
RepositoryPartEmpty(input) ==
    \/ input = <<>>
    \/ /\ input[1] = ":"
       /\ \A i \in 2 .. Len(input) : input[i] # ":"

\* C19: from_string(input) raises ValueError exactly when the part of input
\* before its last ':' is empty; otherwise an input without ':' gives the
\* image (input, 'latest') and an input with one gives the repository and
\* tag that, joined by ':', spell the input, the tag holding no ':'.  And
\* from_string(image.full_name) returns an image equal to image whenever
\* image's repository is non-empty and its tag holds no ':'.
C19_FromStringRoundTrip ==
    /\ imgPc \in {"parsed", "raised", "reparsed", "reraised"} =>
           /\ imgPc \in {"raised", "reraised"} <=> RepositoryPartEmpty(imgInput)
           /\ imgPc \in {"parsed", "reparsed"} =>
                  IF NoColon(imgInput)
                  THEN imgImage = DockerImage(imgInput, Latest)
                  ELSE /\ imgImage.repository \o <<":">> \o imgImage.tag = imgInput
                       /\ NoColon(imgImage.tag)
    /\ ( /\ imgPc \in {"reparsed", "reraised"}
         /\ imgOrigin.repository # <<>>
         /\ NoColon(imgOrigin.tag) ) =>
           /\ imgPc = "reparsed"
           /\ imgImage = imgOrigin

\* An image whose repository holds a ':' went through full_name and
\* from_string and came back equal.
C19_Witness ==
    /\ imgPc = "reparsed"
    /\ ~NoColon(imgOrigin.repository)
    /\ imgOrigin.tag # <<>>
    /\ imgImage = imgOrigin

====
